---- MODULE Spec2Model ----
(***************************************************************************)
(* A model of package inject (src/inject.go): the type -> value registry   *)
(* with implementor scan and parent fallback (Map, MapTo, Set, Get,        *)
(* SetParent), the consumers Invoke and Apply, and the event bus (On,      *)
(* Fire, Start, Stop, the dispatch loop run).                              *)
(*                                                                         *)
(* Spec     : the registry and its consumers, driven by one caller.        *)
(* SpecBus  : the event bus, with caller goroutines and dispatch loops.    *)
(***************************************************************************)
EXTENDS Integers, Sequences, FiniteSets, TLC

\* ---------------------------------------------------------------- bounds
\* Number of binding calls (Map, MapTo, Set, SetParent) one behaviour makes.
MaxBinds == 3
\* Number of On calls, of Fire calls, of sends on the Events() channel, of Stop
\* calls and of Start calls (dispatch loops spawned) one behaviour makes.
MaxOns == 2
MaxFires == 2
MaxSends == 1
MaxStops == 2
MaxLoops == 2

\* ----------------------------------------------------------------- types
\* reflect.Type descriptors.  A and B are concrete types whose method sets
\* satisfy interface I; Event is the struct type of inject.go:67, which has
\* no methods.
Types == {"A", "B", "I", "Event"}

\* reflect.Type.Kind() = reflect.Interface
IsInterface(t) == t = "I"

\* reflect.Type.Implements: k's method set includes that of interface t.
\* An interface type implements itself.
Implements(k, t) == IsInterface(t) /\ k \in {"A", "B", "I"}

\* The registries (injectors) of a program; NoInj is the nil Injector.
Inj == {1, 2}
NoInj == 0

\* --------------------------------------------------------------- values
\* A Go value: its dynamic type, and for an Event its fields (Src, Type,
\* Data); for any other value Data tells two values of one type apart.
Val(ty, d) == [ty |-> ty, Src |-> NoInj, Type |-> "-", Data |-> d]
a1 == Val("A", "1")
a2 == Val("A", "2")
b1 == Val("B", "1")
\* the untyped nil passed as an interface{} argument
Nil == Val("nil", "-")
\* the zero reflect.Value: IsValid() is false
Invalid == Val("invalid", "-")
\* a map read of a key that has no entry yields the zero reflect.Value;
\* Absent marks "no entry" so that range (the implementor scan) skips it
Absent == Val("absent", "-")
\* the zero value of a struct field of type t before Apply
Zero(t) == Val(t, "0")

\* reflect.TypeOf
TypeOf(v) == v.ty
\* reflect.ValueOf: the zero Value for a nil interface{}
ValueOf(v) == IF v = Nil THEN Invalid ELSE v
\* reflect.Value.IsValid
IsValid(v) == v # Invalid /\ v # Absent

\* i.values[k] = v on a Go map: one entry per key, the old entry replaced
MapStoreKeepFirst(m, k, v) == IF m[k] = Absent THEN [m EXCEPT ![k] = v] ELSE m
MapStore(m, k, v) == [m EXCEPT ![k] = v]
\* val := i.values[t]: the zero Value when t has no entry
MapLoad(m, t) == IF m[t] = Absent THEN Invalid ELSE m[t]
\* the keys range visits
Keys(m) == {k \in DOMAIN m : m[k] # Absent}

VARIABLES
    values,     \* values[i][t]: injector.values of registry i
    parent,     \* parent[i]: injector.parent of registry i (NoInj: nil)
    bound,      \* history: the value handed to the latest binding call for (i, t)
    nbinds,     \* number of binding calls made so far
    last,       \* the latest Get / Invoke / Apply call and what it returned
    handlers,   \* handlers[i][k]: injector.handlers of bus i, a nil or non-nil slice
    callers,    \* the goroutines calling Fire, Stop and sending on Events()
    loops,      \* the dispatch goroutines spawned by Start, in spawn order
    disp,       \* history: the events received from the channels, in order
    log,        \* history: the handler calls begun, in order
    crashed,    \* a panic in a dispatch goroutine ended the process
    ncalls      \* number of On, Fire, Events() send and Stop calls made so far

regvars == <<values, parent, bound, nbinds, last>>
busvars == <<handlers, callers, loops, disp, log, crashed, ncalls>>
vars == <<values, parent, bound, nbinds, last,
          handlers, callers, loops, disp, log, crashed, ncalls>>

\* ------------------------------------------------------------ registry
\* The registries p delegates to, p included (i.parent, followed to nil).
RECURSIVE Chain(_)
Chain(p) == IF p = NoInj THEN {} ELSE {p} \cup Chain(parent[p])

\* injector.Get: every value the call may return (range over a Go map visits
\* the keys in an unspecified order, so the implementor scan may stop at any
\* key that implements t).  Step 1: the exact entry, when valid.  Step 2: for
\* an interface type, val = v of the first implementing key met, valid or
\* not.  Step 3: when val is still not valid and a parent is set, the
\* parent's Get.
RECURSIVE Get(_, _)
GetParentFirst(i, t) ==
    IF parent[i] # NoInj /\ (\E v \in Get(parent[i], t) : IsValid(v))
    THEN {v \in Get(parent[i], t) : IsValid(v)}
    ELSE {MapLoad(values[i], t)}
GetNoScan(i, t) ==
    LET val == MapLoad(values[i], t)
    IN  IF ~IsValid(val) /\ parent[i] # NoInj THEN Get(parent[i], t) ELSE {val}
GetLocalOnly(i, t) ==
    LET m    == values[i]
        val  == MapLoad(m, t)
        impl == {k \in Keys(m) : Implements(k, t)}
    IN  IF IsValid(val) THEN {val}
        ELSE IF IsInterface(t) /\ impl # {} THEN {m[k] : k \in impl}
        ELSE {val}
GetScanFirst(i, t) ==
    LET m       == values[i]
        impl    == {k \in Keys(m) \ {t} : Implements(k, t)}
        scanned == IF IsInterface(t) /\ impl # {} THEN {m[k] : k \in impl}
                   ELSE {MapLoad(m, t)}
    IN  UNION { IF ~IsValid(v) /\ parent[i] # NoInj
                THEN Get(parent[i], t)
                ELSE {v} : v \in scanned }
Get(i, t) ==
    LET m       == values[i]
        val     == MapLoad(m, t)
        impl    == {k \in Keys(m) : Implements(k, t)}
        scanned == IF IsValid(val) THEN {val}
                   ELSE IF IsInterface(t) /\ impl # {} THEN {m[k] : k \in impl}
                   ELSE {val}
    IN  UNION { IF ~IsValid(v) /\ parent[i] # NoInj
                THEN Get(parent[i], t)
                ELSE {v} : v \in scanned }

\* The values callers bind: Map keys a value by its dynamic type, so nil (no
\* type) is no input of Map; MapTo and Set take the key from elsewhere.
MapVals == {a1, a2, b1}
MapToVals == {a1, b1, Nil}
\* v may be stored in a variable of type t (Set and MapTo do not check it;
\* the callers here respect it)
Assignable(v, t) == v.ty = t \/ (IsInterface(t) /\ Implements(v.ty, t))
SetInputs == {tv \in Types \X {a1, a2, b1, Invalid} :
                 tv[2] = Invalid \/ Assignable(tv[2], tv[1])}

\* The witness of MapTo: a pointer type, n levels deep, to type elem.
Witnesses == {[ptrs |-> 1, elem |-> "I"], [ptrs |-> 2, elem |-> "I"],
              [ptrs |-> 1, elem |-> "A"]}
\* InterfaceOf: dereference while the kind is Ptr; panic ("panic") unless the
\* type reached is an interface.
RECURSIVE InterfaceOf(_)
InterfaceOf(w) ==
    IF w.ptrs > 0 THEN InterfaceOf([w EXCEPT !.ptrs = w.ptrs - 1])
    ELSE IF IsInterface(w.elem) THEN w.elem ELSE "panic"

NoLast == [op |-> "-", inj |-> NoInj, arg |-> "-", ptr |-> FALSE,
           kind |-> "-", val |-> Invalid, errType |-> "-",
           in |-> <<>>, out |-> <<>>, calls |-> <<>>, fields |-> <<>>]

\* The binding i.values[k] = v made by registry i, and its history.
Bind(i, k, v) ==
    /\ values' = [values EXCEPT ![i] = MapStore(values[i], k, v)]
    /\ bound' = [bound EXCEPT ![i][k] = v]

Map(i, val) ==
    /\ ~crashed
    /\ UNCHANGED busvars
    /\ nbinds < MaxBinds
    /\ Bind(i, TypeOf(val), ValueOf(val))
    /\ nbinds' = nbinds + 1
    /\ last' = [NoLast EXCEPT !.op = "Map", !.inj = i, !.arg = TypeOf(val),
                               !.val = ValueOf(val)]
    /\ UNCHANGED parent

MapTo(i, val, w) ==
    /\ UNCHANGED busvars
    /\ nbinds < MaxBinds
    /\ nbinds' = nbinds + 1
    /\ UNCHANGED parent
    /\ IF InterfaceOf(w) = "panic"
       THEN /\ last' = [NoLast EXCEPT !.op = "MapTo", !.inj = i, !.kind = "panic"]
            /\ UNCHANGED <<values, bound>>
       ELSE /\ Bind(i, InterfaceOf(w), ValueOf(val))
            /\ last' = [NoLast EXCEPT !.op = "MapTo", !.inj = i,
                                       !.arg = InterfaceOf(w), !.val = ValueOf(val)]

Set(i, typ, val) ==
    /\ UNCHANGED busvars
    /\ nbinds < MaxBinds
    /\ Bind(i, typ, val)
    /\ nbinds' = nbinds + 1
    /\ last' = [NoLast EXCEPT !.op = "Set", !.inj = i, !.arg = typ, !.val = val]
    /\ UNCHANGED parent

\* SetParent; the callers keep the parent references acyclic (p = NoInj is
\* SetParent(nil))
SetParent(i, p) ==
    /\ ~crashed
    /\ UNCHANGED busvars
    /\ nbinds < MaxBinds
    /\ i \notin Chain(p)
    /\ parent' = [parent EXCEPT ![i] = p]
    /\ nbinds' = nbinds + 1
    /\ last' = [NoLast EXCEPT !.op = "SetParent", !.inj = i]
    /\ UNCHANGED <<values, bound>>

\* A caller's Get(t) and the value it got.
DoGetCaching(i, t) ==
    /\ UNCHANGED busvars
    /\ \E v \in Get(i, t) :
          /\ last' = [NoLast EXCEPT !.op = "Get", !.inj = i, !.arg = t, !.val = v]
          /\ values' = IF IsValid(v) THEN [values EXCEPT ![i] = MapStore(@, t, v)]
                       ELSE values
    /\ UNCHANGED <<parent, bound, nbinds>>
DoGet(i, t) ==
    /\ UNCHANGED busvars
    /\ \E v \in Get(i, t) :
          last' = [NoLast EXCEPT !.op = "Get", !.inj = i, !.arg = t, !.val = v]
    /\ UNCHANGED <<values, parent, bound, nbinds>>

\* ------------------------------------------------------------- Invoke
\* The functions handed to Invoke and On, by their declared parameter types
\* (reflect.Type.In(0..NumIn-1)).
FuncIn == [f0  |-> <<>>,
           fA  |-> <<"A">>,
           fIA |-> <<"I", "A">>,
           fBA |-> <<"B", "A">>,
           hE  |-> <<"Event">>,
           hEA |-> <<"Event", "A">>,
           hF  |-> <<"Event">>,
           hA  |-> <<"A">>]
\* hF is a func(e Event) whose body may call e.Src.Fire(e.Type, ...): a Fire
\* on the bus whose loop runs it.
CallsFire(h) == h = "hF"
Funcs == {"f0", "fA", "fIA", "fBA", "hE"}
In(f) == FuncIn[f]

\* What f returns when called with arguments in: a value of its own and the
\* arguments it was given.
Results(f, in) == <<Val("ret", f)>> \o in

\* The loop of Invoke from parameter n on, with in[1..n-1] resolved: every
\* way it may end.  kind "error": fmt.Errorf("Value not found for type %v",
\* argType), no call made; kind "call": reflect.ValueOf(f).Call(in).
RECURSIVE Resolve(_, _, _, _)
ResolveSkipMissing(i, f, n, in) ==
    IF n > Len(In(f))
    THEN {[kind |-> "call", errType |-> "-", in |-> in,
           out |-> Results(f, in), calls |-> <<[f |-> f, in |-> in]>>]}
    ELSE UNION { IF ~IsValid(v)
                 THEN Resolve(i, f, n + 1, in)
                 ELSE Resolve(i, f, n + 1, Append(in, v)) : v \in Get(i, In(f)[n]) }
Resolve(i, f, n, in) ==
    IF n > Len(In(f))
    THEN {[kind |-> "call", errType |-> "-", in |-> in,
           out |-> Results(f, in), calls |-> <<[f |-> f, in |-> in]>>]}
    ELSE UNION { IF ~IsValid(v)
                 THEN {[kind |-> "error", errType |-> In(f)[n], in |-> <<>>,
                        out |-> <<>>, calls |-> <<>>]}
                 ELSE Resolve(i, f, n + 1, Append(in, v)) : v \in Get(i, In(f)[n]) }

\* injector.Invoke
InvokeOutcomes(i, f) == Resolve(i, f, 1, <<>>)

DoInvoke(i, f) ==
    /\ UNCHANGED busvars
    /\ \E r \in InvokeOutcomes(i, f) :
          last' = [NoLast EXCEPT !.op = "Invoke", !.inj = i, !.arg = f,
                                 !.kind = r.kind, !.errType = r.errType,
                                 !.in = r.in, !.out = r.out, !.calls = r.calls]
    /\ UNCHANGED <<values, parent, bound, nbinds>>

\* -------------------------------------------------------------- Apply
\* A struct tag: the raw string and the key:"value" pairs it parses to.
TagInject == [raw |-> "inject", kv |-> <<>>]
TagInjectKV == [raw |-> "inject:dep", kv |-> << <<"inject", "dep">> >>]
TagJson == [raw |-> "json:name", kv |-> << <<"json", "name">> >>]
TagNone == [raw |-> "", kv |-> <<>>]

\* reflect.StructTag.Get: the value of the first pair with this key, or ""
RECURSIVE TagGet(_, _)
TagGet(kv, key) ==
    IF kv = <<>> THEN ""
    ELSE IF Head(kv)[1] = key THEN Head(kv)[2] ELSE TagGet(Tail(kv), key)

\* structField.Tag == "inject" || structField.Tag.Get("inject") != ""
Tagged(tag) == tag.raw = "inject" \/ TagGet(tag.kv, "inject") # ""

\* The struct types handed to Apply: each field's type, tag, whether its name
\* is exported, and the value it holds before Apply.
Field(ft, tag, exported, init) ==
    [ft |-> ft, tag |-> tag, exported |-> exported, init |-> init]
StructFields ==
    [sAB |-> <<Field("A", TagInject, TRUE, Zero("A")),
               Field("B", TagJson, TRUE, Val("B", "9"))>>,
     sUI |-> <<Field("A", TagInject, FALSE, Zero("A")),
               Field("I", TagInjectKV, TRUE, Zero("I")),
               Field("A", TagNone, TRUE, Val("A", "9"))>>,
     sTT |-> <<Field("A", TagInject, TRUE, Zero("A")),
               Field("B", TagInjectKV, TRUE, Zero("B"))>>]
Structs == DOMAIN StructFields
\* the inputs of Apply: a struct (or a pointer to one), or a value that is no
\* struct ("int")
ApplyInputs == Structs \cup {"int"}
InitFields(s) == [n \in DOMAIN StructFields[s] |-> StructFields[s][n].init]

\* reflect.Value.CanSet: the struct was reached through a pointer
\* (addressable) and the field is exported
CanSet(fld, ptr) == ptr /\ fld.exported

\* The field a tagged-field test selects for injection
InjectsAll(fld, ptr) == CanSet(fld, ptr)
Injects(fld, ptr) == CanSet(fld, ptr) /\ Tagged(fld.tag)

\* The loop of Apply from field n on, cur being the fields' values so far.
RECURSIVE ApplyFrom(_, _, _, _, _)
ApplyFromSkipMissing(i, s, ptr, n, cur) ==
    LET fld == StructFields[s][n]
    IN  IF n > Len(StructFields[s])
        THEN {[kind |-> "ok", errType |-> "-", fields |-> cur]}
        ELSE IF Injects(fld, ptr)
        THEN UNION { IF ~IsValid(v)
                     THEN ApplyFrom(i, s, ptr, n + 1, cur)
                     ELSE ApplyFrom(i, s, ptr, n + 1, [cur EXCEPT ![n] = v])
                     : v \in Get(i, fld.ft) }
        ELSE ApplyFrom(i, s, ptr, n + 1, cur)
ApplyFrom(i, s, ptr, n, cur) ==
    LET fld == StructFields[s][n]
    IN  IF n > Len(StructFields[s])
        THEN {[kind |-> "ok", errType |-> "-", fields |-> cur]}
        ELSE IF Injects(fld, ptr)
        THEN UNION { IF ~IsValid(v)
                     THEN {[kind |-> "error", errType |-> fld.ft, fields |-> cur]}
                     ELSE ApplyFrom(i, s, ptr, n + 1, [cur EXCEPT ![n] = v])
                     : v \in Get(i, fld.ft) }
        ELSE ApplyFrom(i, s, ptr, n + 1, cur)

\* injector.Apply on a struct of type s, passed by pointer (ptr) or by value
ApplyOutcomes(i, s, ptr) ==
    IF s \notin Structs
    THEN {[kind |-> "ok", errType |-> "-", fields |-> <<>>]}
    ELSE ApplyFrom(i, s, ptr, 1, InitFields(s))

DoApply(i, s, ptr) ==
    /\ UNCHANGED busvars
    /\ \E r \in ApplyOutcomes(i, s, ptr) :
          last' = [NoLast EXCEPT !.op = "Apply", !.inj = i, !.arg = s, !.ptr = ptr,
                                 !.kind = r.kind, !.errType = r.errType,
                                 !.fields = r.fields]
    /\ UNCHANGED <<values, parent, bound, nbinds>>

\* ---------------------------------------------------------- event bus
Kinds == {"k1", "k2"}
\* Event{Src: i, Type: k, Data: d}
Event(i, k, d) == [ty |-> "Event", Src |-> i, Type |-> k, Data |-> d]

\* A Go slice of handlers: nil, or a (possibly empty) non-nil slice.
NilSlice == [nil |-> TRUE, hs |-> <<>>]
Slice(hs) == [nil |-> FALSE, hs |-> hs]
\* the variadic argument of On: On(k) passes nil, On(k, s...) passes s

\* validateHandler: panics unless the handler is a func; for a func with no
\* parameter, evaluating t.In(0) panics; a func with parameters passes
\* (NumIn() == 0 is false, so its first parameter is not looked at).
IsFunc(h) == h \in DOMAIN FuncIn
ValidateHandler(h) ==
    IF ~IsFunc(h) THEN "panic"
    ELSE IF Len(In(h)) = 0 THEN "panic"
    ELSE "ok"

Callers == {1, 2}
Idle == [pc |-> "idle", op |-> "-", bus |-> NoInj, e |-> Invalid, nh |-> 0]
\* the goroutine that makes the next blocking call (the idle ones are
\* interchangeable)
FreeCaller == CHOOSE c \in Callers :
                 callers[c].pc = "idle" /\ \A c2 \in Callers :
                                             callers[c2].pc = "idle" => c <= c2
HasFreeCaller == \E c \in Callers : callers[c].pc = "idle"

NoLoop == [pc |-> "select", bus |-> NoInj, d |-> 0, e |-> Invalid,
           hs |-> <<>>, idx |-> 0, to |-> NoInj, fe |-> Invalid, fnh |-> 0]
LoopIds == 1..Len(loops)
\* the dispatch goroutines of bus i that have not returned
Live(i) == {l \in LoopIds : loops[l].bus = i /\ loops[l].pc \notin {"exited", "panicked"}}

\* injector.On
On(i, k, arg) ==
    /\ ~crashed
    /\ ncalls.on < MaxOns
    /\ ncalls' = [ncalls EXCEPT !.on = @ + 1]
    /\ IF \E n \in DOMAIN arg.hs : ValidateHandler(arg.hs[n]) = "panic"
       THEN UNCHANGED handlers
       ELSE handlers' = [handlers EXCEPT ![i][k] =
                            IF @.nil THEN arg ELSE Slice(@.hs \o arg.hs)]
    /\ UNCHANGED <<regvars, callers, loops, disp, log, crashed>>

\* injector.Fire: returns at once when handlers[key] is nil; otherwise the
\* caller parks on the unbuffered channel i.events until a loop receives.
FireReturnsAtOnce(i, k) == handlers[i][k].nil
Fire(i, k, d) ==
    /\ ~crashed
    /\ HasFreeCaller
    /\ ncalls.fire < MaxFires
    /\ ncalls' = [ncalls EXCEPT !.fire = @ + 1]
    /\ IF FireReturnsAtOnce(i, k)
       THEN UNCHANGED callers
       ELSE callers' = [callers EXCEPT ![FreeCaller] =
                           [pc |-> "send", op |-> "Fire", bus |-> i,
                            e |-> Event(i, k, d), nh |-> Len(handlers[i][k].hs)]]
    /\ UNCHANGED <<regvars, handlers, loops, disp, log, crashed>>

\* A send on the channel Events() returns, by a goroutine outside the bus.
EventsSend(i, k, d) ==
    /\ ~crashed
    /\ HasFreeCaller
    /\ ncalls.send < MaxSends
    /\ ncalls' = [ncalls EXCEPT !.send = @ + 1]
    /\ callers' = [callers EXCEPT ![FreeCaller] =
                      [pc |-> "send", op |-> "Events", bus |-> i,
                       e |-> Event(i, k, d), nh |-> 0]]
    /\ UNCHANGED <<regvars, handlers, loops, disp, log, crashed>>

\* injector.Stop: i.stopped <- true on an unbuffered channel
Stop(i) ==
    /\ ~crashed
    /\ HasFreeCaller
    /\ ncalls.stop < MaxStops
    /\ ncalls' = [ncalls EXCEPT !.stop = @ + 1]
    /\ callers' = [callers EXCEPT ![FreeCaller] =
                      [pc |-> "stop", op |-> "Stop", bus |-> i,
                       e |-> Invalid, nh |-> 0]]
    /\ UNCHANGED <<regvars, handlers, loops, disp, log, crashed>>

\* injector.Start: go func() { for { select { ... } } }()
Start(i) ==
    /\ ~crashed
    /\ Len(loops) < MaxLoops
    /\ loops' = Append(loops, [NoLoop EXCEPT !.bus = i])
    /\ UNCHANGED <<regvars, handlers, callers, disp, log, crashed, ncalls>>

\* case e := <-i.events, the sender being a Fire or Events() caller
Recv(l, c) ==
    /\ ~crashed
    /\ loops[l].pc = "select"
    /\ callers[c].pc = "send" /\ callers[c].bus = loops[l].bus
    /\ disp' = Append(disp, [bus |-> loops[l].bus, e |-> callers[c].e,
                             via |-> callers[c].op, nh |-> callers[c].nh])
    /\ loops' = [loops EXCEPT ![l].pc = "dispatch", ![l].e = callers[c].e,
                              ![l].d = Len(disp) + 1,
                              ![l].hs = <<>>, ![l].idx = 0]
    /\ callers' = [callers EXCEPT ![c] = Idle]
    /\ UNCHANGED <<regvars, handlers, log, crashed, ncalls>>

\* case e := <-i.events, the sender being a child's loop in run (forward)
RecvForward(l, l2) ==
    /\ ~crashed
    /\ l # l2
    /\ loops[l].pc = "select"
    /\ loops[l2].pc = "forward" /\ loops[l2].to = loops[l].bus
    /\ disp' = Append(disp, [bus |-> loops[l].bus, e |-> loops[l2].e,
                             via |-> "forward", nh |-> 0])
    /\ loops' = [loops EXCEPT ![l].pc = "dispatch", ![l].e = loops[l2].e,
                              ![l].d = Len(disp) + 1,
                              ![l].hs = <<>>, ![l].idx = 0,
                              ![l2].pc = "select"]
    /\ UNCHANGED <<regvars, handlers, callers, log, crashed, ncalls>>

\* case <-i.stopped: return
RecvStopWhileBusy(l, c) ==
    /\ ~crashed
    /\ loops[l].pc \in {"select", "fire"}
    /\ callers[c].pc = "stop" /\ callers[c].bus = loops[l].bus
    /\ loops' = [loops EXCEPT ![l].pc = "exited"]
    /\ callers' = [callers EXCEPT ![c] = Idle]
    /\ UNCHANGED <<regvars, handlers, disp, log, crashed, ncalls>>
RecvStop(l, c) ==
    /\ ~crashed
    /\ loops[l].pc = "select"
    /\ callers[c].pc = "stop" /\ callers[c].bus = loops[l].bus
    /\ loops' = [loops EXCEPT ![l].pc = "exited"]
    /\ callers' = [callers EXCEPT ![c] = Idle]
    /\ UNCHANGED <<regvars, handlers, disp, log, crashed, ncalls>>

\* run(e), hs == nil and no parent: panic in the dispatch goroutine
RunPanic(l) ==
    /\ ~crashed
    /\ loops[l].pc = "dispatch"
    /\ handlers[loops[l].bus][loops[l].e.Type].nil
    /\ parent[loops[l].bus] = NoInj
    /\ crashed' = TRUE
    /\ loops' = [loops EXCEPT ![l].pc = "panicked"]
    /\ UNCHANGED <<regvars, handlers, callers, disp, log, ncalls>>

\* run(e), hs == nil and a parent: the send on the parent's event channel
RunForward(l) ==
    /\ ~crashed
    /\ loops[l].pc = "dispatch"
    /\ handlers[loops[l].bus][loops[l].e.Type].nil
    /\ parent[loops[l].bus] # NoInj
    /\ loops' = [loops EXCEPT ![l].pc = "forward", ![l].to = parent[loops[l].bus]]
    /\ UNCHANGED <<regvars, handlers, callers, disp, log, crashed, ncalls>>

\* one iteration of "for _, h := range hs" done: the next, or back to select
Advance(l) ==
    loops' = [loops EXCEPT ![l].idx = @ + 1,
                           ![l].pc = IF loops[l].idx + 1 > Len(loops[l].hs)
                                     THEN "select" ELSE "invoke"]

\* run(e), hs != nil: i.Set(Event type, e), then the loop over hs
RunSet(l) ==
    /\ ~crashed
    /\ loops[l].pc = "dispatch"
    /\ ~handlers[loops[l].bus][loops[l].e.Type].nil
    /\ Bind(loops[l].bus, "Event", loops[l].e)
    /\ LET hs == handlers[loops[l].bus][loops[l].e.Type].hs
       IN  loops' = [loops EXCEPT ![l].hs = hs, ![l].idx = 1,
                                  ![l].pc = IF hs = <<>> THEN "select" ELSE "invoke"]
    /\ UNCHANGED <<parent, nbinds, last, handlers, callers, disp, log, crashed, ncalls>>

\* i.Invoke(h): the handler is entered when its parameters resolve; the error
\* Invoke returns otherwise is dropped
InvokeHandlerStopOnError(l) ==
    /\ ~crashed
    /\ loops[l].pc = "invoke"
    /\ \E r \in InvokeOutcomes(loops[l].bus, loops[l].hs[loops[l].idx]) :
          IF r.kind = "call"
          THEN /\ log' = Append(log, [d |-> loops[l].d, bus |-> loops[l].bus,
                                      loop |-> l, idx |-> loops[l].idx,
                                      h |-> loops[l].hs[loops[l].idx],
                                      in |-> r.in])
               /\ loops' = [loops EXCEPT ![l].pc = "handler"]
          ELSE /\ loops' = [loops EXCEPT ![l].pc = "select"]
               /\ UNCHANGED log
    /\ UNCHANGED <<regvars, handlers, callers, disp, crashed, ncalls>>
InvokeHandler(l) ==
    /\ ~crashed
    /\ loops[l].pc = "invoke"
    /\ \E r \in InvokeOutcomes(loops[l].bus, loops[l].hs[loops[l].idx]) :
          IF r.kind = "call"
          THEN /\ log' = Append(log, [d |-> loops[l].d, bus |-> loops[l].bus,
                                      loop |-> l, idx |-> loops[l].idx,
                                      h |-> loops[l].hs[loops[l].idx],
                                      in |-> r.in])
               /\ loops' = [loops EXCEPT ![l].pc = "handler"]
          ELSE /\ Advance(l)
               /\ UNCHANGED log
    /\ UNCHANGED <<regvars, handlers, callers, disp, crashed, ncalls>>

\* Fire called by the handler the loop is running, on the loop's own bus and
\* for the kind of the event being handled: the loop's goroutine returns from
\* Fire at once when the list for the kind is nil, and parks on the
\* unbuffered i.events otherwise.
HandlerFire(l, d) ==
    /\ ~crashed
    /\ loops[l].pc = "handler"
    /\ CallsFire(loops[l].hs[loops[l].idx])
    /\ ncalls.fire < MaxFires
    /\ ncalls' = [ncalls EXCEPT !.fire = @ + 1]
    /\ LET i == loops[l].bus
           k == loops[l].e.Type
       IN  IF FireReturnsAtOnce(i, k)
           THEN UNCHANGED loops
           ELSE loops' = [loops EXCEPT ![l].pc = "fire",
                                       ![l].fe = Event(i, k, d),
                                       ![l].fnh = Len(handlers[i][k].hs)]
    /\ UNCHANGED <<regvars, handlers, callers, disp, log, crashed>>

\* case e := <-i.events, the sender being a loop parked in a handler's Fire
RecvHandlerFire(l, l2) ==
    /\ ~crashed
    /\ l # l2
    /\ loops[l].pc = "select"
    /\ loops[l2].pc = "fire" /\ loops[l2].fe.Src = loops[l].bus
    /\ disp' = Append(disp, [bus |-> loops[l].bus, e |-> loops[l2].fe,
                             via |-> "Fire", nh |-> loops[l2].fnh])
    /\ loops' = [loops EXCEPT ![l].pc = "dispatch", ![l].e = loops[l2].fe,
                              ![l].d = Len(disp) + 1,
                              ![l].hs = <<>>, ![l].idx = 0,
                              ![l2].pc = "handler", ![l2].fe = Invalid,
                              ![l2].fnh = 0]
    /\ UNCHANGED <<regvars, handlers, callers, log, crashed, ncalls>>

\* the handler returns
HandlerReturn(l) ==
    /\ ~crashed
    /\ loops[l].pc = "handler"
    /\ Advance(l)
    /\ UNCHANGED <<regvars, handlers, callers, disp, log, crashed, ncalls>>

\* ------------------------------------------------- registry specification
\* New(): empty maps, no parent.
Init ==
    /\ values = [i \in Inj |-> [t \in Types |-> Absent]]
    /\ parent = [i \in Inj |-> NoInj]
    /\ bound = [i \in Inj |-> [t \in Types |-> Absent]]
    /\ nbinds = 0
    /\ last = NoLast
    /\ handlers = [i \in Inj |-> [k \in Kinds |-> NilSlice]]
    /\ callers = [c \in Callers |-> Idle]
    /\ loops = <<>>
    /\ disp = <<>>
    /\ log = <<>>
    /\ crashed = FALSE
    /\ ncalls = [on |-> 0, fire |-> 0, send |-> 0, stop |-> 0]

Next ==
    \/ \E i \in Inj, val \in MapVals : Map(i, val)
    \/ \E i \in Inj, val \in MapToVals, w \in Witnesses : MapTo(i, val, w)
    \/ \E i \in Inj, tv \in SetInputs : Set(i, tv[1], tv[2])
    \/ \E i \in Inj, p \in Inj \cup {NoInj} : SetParent(i, p)
    \/ \E i \in Inj, t \in Types : DoGet(i, t)
    \/ \E i \in Inj, f \in Funcs : DoInvoke(i, f)
    \/ \E i \in Inj, s \in ApplyInputs, ptr \in BOOLEAN : DoApply(i, s, ptr)

Spec == Init /\ [][Next]_vars

\* ------------------------------------------------------ bus specification
\* The payload of the n-th Fire or Events() send of a behaviour: each call
\* carries its own.
Payload(n) == IF n = 0 THEN "d1" ELSE IF n = 1 THEN "d2" ELSE "d3"
NextPayload == Payload(ncalls.fire + ncalls.send)

\* Bus 1 is driven, and has no parent.  Kind k1 is the kind handlers are
\* written for; for kind k2 On is called with no handler, an empty list, a
\* func() or a value that is no func, and events of kind k2 are sent on
\* Events().
NextBus ==
    \/ values[1]["A"] = Absent /\ Map(1, a1)
    \/ \E h \in {"hE", "hEA"} : On(1, "k1", Slice(<<h>>))
    \/ \E arg \in {NilSlice, Slice(<<>>), Slice(<<"f0">>), Slice(<<"notfunc">>)} :
          On(1, "k2", arg)
    \/ \E k \in Kinds : Fire(1, k, NextPayload)
    \/ EventsSend(1, "k2", NextPayload)
    \/ Stop(1)
    \/ Start(1)
    \/ \E l \in LoopIds, c \in Callers : Recv(l, c)
    \/ \E l \in LoopIds, c \in Callers : RecvStop(l, c)
    \/ \E l \in LoopIds : RunPanic(l)
    \/ \E l \in LoopIds : RunSet(l)
    \/ \E l \in LoopIds : InvokeHandler(l)
    \/ \E l \in LoopIds : HandlerReturn(l)

SpecBus == Init /\ [][NextBus]_vars

\* ----------------------------------------------------- tree specification
\* Bus 2 is the child of bus 1 once SetParent(2, 1) is called.  Events of
\* kind k2 are sent on the child's Events(); the parent has a func(Event) for
\* k2, the child is given an empty list for it.  For kind k1 the child is
\* given a func(Event) that calls Fire, or a func(A), and k1 is fired on it.
NextTree ==
    \/ parent[2] = NoInj /\ SetParent(2, 1)
    \/ On(1, "k2", Slice(<<"hE">>))
    \/ On(2, "k2", Slice(<<>>))
    \/ \E h \in {"hF", "hA"} : On(2, "k1", Slice(<<h>>))
    \/ Fire(2, "k1", NextPayload)
    \/ EventsSend(2, "k2", NextPayload)
    \/ Stop(2)
    \/ \E i \in Inj : Start(i)
    \/ \E l \in LoopIds, c \in Callers : Recv(l, c)
    \/ \E l, l2 \in LoopIds : RecvForward(l, l2)
    \/ \E l, l2 \in LoopIds : RecvHandlerFire(l, l2)
    \/ \E l \in LoopIds, c \in Callers : RecvStop(l, c)
    \/ \E l \in LoopIds : RunPanic(l)
    \/ \E l \in LoopIds : RunForward(l)
    \/ \E l \in LoopIds : RunSet(l)
    \/ \E l \in LoopIds : InvokeHandler(l)
    \/ \E l \in LoopIds : HandlerFire(l, NextPayload)
    \/ \E l \in LoopIds : HandlerReturn(l)

SpecTree == Init /\ [][NextTree]_vars

\* ===================================================== registry claims
\* t resolves / cannot be resolved through registry i, whatever order the
\* implementor scan takes
Resolves(i, t) == \A v \in Get(i, t) : IsValid(v)
Unresolvable(i, t) == \A v \in Get(i, t) : ~IsValid(v)
\* the keys of registry i, other than t itself, that implement interface t
Implementors(i, t) == {k \in Keys(values[i]) \ {t} : Implements(k, t)}

\* C1 (as stated): after any sequence of Map, MapTo and Set calls on one
\* registry (no parent), Get(t) returns the value of the most recent binding
\* made for t.
C1_GetReturnsLatestBinding ==
    (last.op = "Get" /\ parent[last.inj] = NoInj
        /\ bound[last.inj][last.arg] # Absent)
    => last.val = bound[last.inj][last.arg]

\* C1 (amended): a registry holds one entry per type, the value of the most
\* recent binding call for it, and Get(t) returns that value whenever it is a
\* valid reflect.Value (a binding of the zero Value counts as no binding).
C1_GetReturnsLatestValidBinding ==
    /\ \A i \in Inj, t \in Types : values[i][t] = bound[i][t]
    /\ (last.op = "Get" /\ IsValid(bound[last.inj][last.arg]))
       => last.val = bound[last.inj][last.arg]

\* C1 witness: Get(A) returned a2 on a registry where A was bound twice and
\* nothing else was done.
C1_Witness ==
    /\ last.op = "Get" /\ last.arg = "A" /\ last.val = a2
    /\ nbinds = 2
    /\ \A i \in Inj : parent[i] = NoInj
    /\ \A i \in Inj, t \in Types : bound[i][t] # Absent <=> (i = last.inj /\ t = "A")

\* C2 (as stated): for a child whose parent is set, a type bound only in the
\* parent is returned by the child's Get with the parent's value, and a type
\* bound in both is returned with the child's value.
C2_ParentFallbackAndShadowing ==
    (last.op = "Get" /\ parent[last.inj] # NoInj)
    => LET c == bound[last.inj][last.arg]
           p == bound[parent[last.inj]][last.arg]
       IN  /\ (c = Absent /\ p # Absent) => last.val = p
           /\ (c # Absent /\ p # Absent) => last.val = c

\* C2 (amended): the parent's valid value is returned through the child when
\* the child has no entry for the type and, for an interface type, no entry
\* whose key implements it; a valid value of the child shadows the parent's.
C2_ValidParentFallbackAndShadowing ==
    (last.op = "Get" /\ parent[last.inj] # NoInj)
    => LET c == bound[last.inj][last.arg]
           p == bound[parent[last.inj]][last.arg]
       IN  /\ (c = Absent /\ IsValid(p) /\ Implementors(last.inj, last.arg) = {})
                 => last.val = p
           /\ (IsValid(c) /\ p # Absent) => last.val = c

\* C2 witness: the child's Get returned the child's value while the parent
\* holds another valid value for the same type.
C2_Witness ==
    /\ last.op = "Get" /\ parent[last.inj] # NoInj
    /\ IsValid(bound[last.inj][last.arg])
    /\ IsValid(bound[parent[last.inj]][last.arg])
    /\ bound[last.inj][last.arg] # bound[parent[last.inj]][last.arg]
    /\ last.val = bound[last.inj][last.arg]

\* C3 (as stated): right after MapTo(v, witness of I), Get(I) returns v; and
\* Get(I) returns the registered value when I has no entry and exactly one
\* registered concrete type implements I.
C3_MapToThenGetAndSoleImplementor ==
    /\ (last.op = "MapTo" /\ last.kind # "panic")
          => Get(last.inj, last.arg) = {last.val}
    /\ (last.op = "Get" /\ IsInterface(last.arg)
          /\ values[last.inj][last.arg] = Absent
          /\ Cardinality(Implementors(last.inj, last.arg)) = 1)
          => \A k \in Implementors(last.inj, last.arg) : last.val = values[last.inj][k]

\* C3 (amended): the same for a non-nil v, and for a sole implementor whose
\* registered value is valid.
C3_ValidMapToThenGetAndSoleImplementor ==
    /\ (last.op = "MapTo" /\ last.kind # "panic" /\ IsValid(last.val))
          => Get(last.inj, last.arg) = {last.val}
    /\ (last.op = "Get" /\ IsInterface(last.arg)
          /\ values[last.inj][last.arg] = Absent
          /\ Cardinality(Implementors(last.inj, last.arg)) = 1)
          => \A k \in Implementors(last.inj, last.arg) :
                IsValid(values[last.inj][k]) => last.val = values[last.inj][k]

\* C3 witness: Get(I) returned the value of the only implementor, I itself
\* having no entry here or in the parent.
C3_Witness ==
    /\ last.op = "Get" /\ last.arg = "I" /\ IsValid(last.val)
    /\ \A i \in Inj : values[i]["I"] = Absent
    /\ Cardinality(Implementors(last.inj, "I")) = 1
    /\ \A k \in Implementors(last.inj, "I") : last.val = values[last.inj][k]

\* the first index of ts whose type cannot be resolved (0: none)
FirstUnresolvable(i, ts) ==
    LET U == {n \in 1..Len(ts) : Unresolvable(i, ts[n])}
    IN  IF U = {} THEN 0 ELSE CHOOSE n \in U : \A m \in U : n <= m

\* C4: Invoke(f): when every parameter type of f resolves, f is called exactly
\* once with the resolved values in declared order and its results are
\* returned; when a parameter type cannot be resolved (those before it
\* resolving), Invoke returns the error naming it and f is not called.  An
\* error never comes with a call.
C4_InvokeCallsOnceOrNamesFirstMissing ==
    last.op = "Invoke"
    => LET i  == last.inj
           f  == last.arg
           ts == In(f)
           u  == FirstUnresolvable(i, ts)
       IN  /\ last.kind \in {"call", "error"}
           /\ last.kind = "error" => (last.calls = <<>> /\ last.out = <<>>)
           /\ (\A n \in 1..Len(ts) : Resolves(i, ts[n]))
                 => /\ last.kind = "call"
                    /\ last.calls = <<[f |-> f, in |-> last.in]>>
                    /\ Len(last.in) = Len(ts)
                    /\ \A n \in 1..Len(ts) : last.in[n] \in Get(i, ts[n])
                    /\ last.out = Results(f, last.in)
           /\ (u # 0 /\ \A n \in 1..(u - 1) : Resolves(i, ts[n]))
                 => /\ last.kind = "error"
                    /\ last.errType = ts[u]
                    /\ last.calls = <<>>

\* C4 witness: Invoke of a func(B, A) with B bound and A not: the error names
\* A and no call was made.
C4_Witness ==
    /\ last.op = "Invoke" /\ last.arg = "fBA"
    /\ Resolves(last.inj, "B") /\ Unresolvable(last.inj, "A")
    /\ last.kind = "error" /\ last.errType = "A" /\ last.calls = <<>>

\* The field n of the struct of the latest Apply: tagged, settable.
FieldTagged(n) == Tagged(StructFields[last.arg][n].tag)
FieldSettable(n) == last.ptr /\ StructFields[last.arg][n].exported
FieldType(n) == StructFields[last.arg][n].ft
FieldInit(n) == StructFields[last.arg][n].init
FieldIdx == IF last.arg \in Structs THEN DOMAIN StructFields[last.arg] ELSE {}
\* field n is one Apply injects: tagged and settable
FieldInjected(n) == FieldTagged(n) /\ FieldSettable(n)
\* Apply got as far as field n: every injected field before it was assigned
ReachedField(n) ==
    \A m \in FieldIdx : (m < n /\ FieldInjected(m)) => last.fields[m] # FieldInit(m)

\* C5 (as stated): Apply assigns every tagged field whose type resolves, and
\* every untagged field keeps its value.
C5_ApplySetsTaggedFieldsOnly ==
    last.op = "Apply"
    => \A n \in FieldIdx :
          /\ (FieldTagged(n) /\ Resolves(last.inj, FieldType(n)))
                => last.fields[n] \in Get(last.inj, FieldType(n))
          /\ ~FieldTagged(n) => last.fields[n] = FieldInit(n)

\* C5 (amended): Apply sets only the tagged fields that are settable (struct
\* reached through a pointer, field exported): every such field whose type
\* resolves is assigned a resolved value unless Apply returned its error at an
\* earlier field, and every other field keeps the value it had.
C5_ApplySetsTaggedSettableFieldsOnly ==
    last.op = "Apply"
    => \A n \in FieldIdx :
          /\ ~FieldInjected(n) => last.fields[n] = FieldInit(n)
          /\ (FieldInjected(n) /\ Resolves(last.inj, FieldType(n)) /\ ReachedField(n))
                => /\ IsValid(last.fields[n])
                   /\ last.fields[n] \in Get(last.inj, FieldType(n))

\* C5 witness: Apply on a pointer to struct{A `inject`; B `json`} with A and B
\* bound: A was assigned, B kept its value.
C5_Witness ==
    /\ last.op = "Apply" /\ last.arg = "sAB" /\ last.ptr /\ last.kind = "ok"
    /\ Resolves(last.inj, "A") /\ Resolves(last.inj, "B")
    /\ last.fields[1] \in Get(last.inj, "A")
    /\ last.fields[2] = FieldInit(2)

\* C6 (as stated): Apply returns an error naming the field's type whenever a
\* tagged field cannot be resolved, settable or not, by pointer or by value.
C6_ApplyFailsOnUnresolvedTaggedField ==
    (last.op = "Apply"
        /\ \E n \in FieldIdx : FieldTagged(n) /\ Unresolvable(last.inj, FieldType(n)))
    => /\ last.kind = "error"
       /\ \E n \in FieldIdx : /\ FieldTagged(n)
                               /\ Unresolvable(last.inj, FieldType(n))
                               /\ last.errType = FieldType(n)

\* C6 (amended): Apply returns an error naming the field's type whenever a
\* tagged field that is settable (struct passed by pointer, field exported)
\* cannot be resolved: the error names the first tagged settable field that
\* did not resolve.
C6_ApplyFailsOnUnresolvedSettableTaggedField ==
    LET U == {n \in FieldIdx : FieldInjected(n) /\ Unresolvable(last.inj, FieldType(n))}
        first == CHOOSE n \in U : \A m \in U : n <= m
    IN  (last.op = "Apply" /\ U # {})
        => /\ last.kind = "error"
           /\ \E m \in FieldIdx : /\ m <= first /\ FieldInjected(m)
                                   /\ ~Resolves(last.inj, FieldType(m))
                                   /\ last.errType = FieldType(m)
           /\ (\A m \in FieldIdx :
                  (m < first /\ FieldInjected(m)) => Resolves(last.inj, FieldType(m)))
                => last.errType = FieldType(first)

\* C6 witness: Apply on a pointer to struct{A `inject`; B `inject:"dep"`} with
\* A bound and B not: the error names B, after A was assigned.
C6_Witness ==
    /\ last.op = "Apply" /\ last.arg = "sTT" /\ last.ptr
    /\ Resolves(last.inj, "A") /\ Unresolvable(last.inj, "B")
    /\ last.kind = "error" /\ last.errType = "B"
    /\ IsValid(last.fields[1])

\* C12: Get, Invoke and Apply leave every registry as it was: a step that is
\* one of these calls, successful or not, changes neither the bindings nor the
\* parent reference of any registry.
C12_LookupLeavesRegistriesUnchanged ==
    [][last'.op \in {"Get", "Invoke", "Apply"}
          => (values' = values /\ parent' = parent)]_vars

\* C12 witness: a Get answered by the parent of the registry asked, which
\* itself still has no entry for the type.
C12_Witness ==
    /\ last.op = "Get" /\ parent[last.inj] # NoInj
    /\ values[last.inj][last.arg] = Absent
    /\ IsValid(last.val)
    /\ last.val = values[parent[last.inj]][last.arg]

\* the keys of registry r that implement t, t itself included when it has an
\* entry, and those of them that hold a valid value
ImplKeys(r, t) == {k \in Keys(values[r]) : Implements(k, t)}
ValidImplKeys(r, t) == {k \in ImplKeys(r, t) : IsValid(values[r][k])}

\* C13 (as stated): along the parent chain Get(t) returns the not-found
\* sentinel exactly when no registry of the chain holds an entry under t and,
\* t being an interface, none holds an entry whose key implements t.
C13_NotFoundExactlyWhenNoBinding ==
    last.op = "Get"
    => (last.val = Invalid
        <=> \A r \in Chain(last.inj) :
               /\ values[r][last.arg] = Absent
               /\ IsInterface(last.arg) => ImplKeys(r, last.arg) = {})

\* C13 (amended): Get(t) returns the sentinel (the zero Value) or a valid
\* value; the sentinel when no registry of the chain holds a valid value
\* under t or under a key implementing t; a valid value when some registry of
\* the chain holds a valid value under t, or holds entries under keys
\* implementing t all of which are valid.
C13_NotFoundExactlyWhenNoValidBinding ==
    last.op = "Get"
    => LET t == last.arg
           C == Chain(last.inj)
       IN  /\ last.val = Invalid \/ IsValid(last.val)
           /\ (\A r \in C : /\ ~IsValid(values[r][t])
                              /\ ValidImplKeys(r, t) = {})
                 => last.val = Invalid
           /\ (\E r \in C : IsValid(values[r][t])) => IsValid(last.val)
           /\ (IsInterface(t) /\ \E r \in C : /\ ImplKeys(r, t) # {}
                                                /\ ImplKeys(r, t) = ValidImplKeys(r, t))
                 => IsValid(last.val)

\* C13 witness: a Get through a child and its parent returned the sentinel,
\* the type having no entry in either while another type is bound.
C13_Witness ==
    /\ last.op = "Get" /\ parent[last.inj] # NoInj
    /\ last.val = Invalid
    /\ \A r \in Chain(last.inj) : values[r][last.arg] = Absent
    /\ \E r \in Chain(last.inj), t \in Types : IsValid(values[r][t])

\* C14 (as stated): an entry of the registry asked under t itself is what Get
\* returns; for an interface t with no such entry, an implementor registered
\* in the registry asked is returned, whatever the parent holds.
C14_LocalExactThenLocalImplementorThenParent ==
    last.op = "Get"
    => LET i == last.inj
           t == last.arg
       IN  /\ values[i][t] # Absent => last.val = values[i][t]
           /\ (IsInterface(t) /\ values[i][t] = Absent /\ Implementors(i, t) # {})
                 => last.val \in {values[i][k] : k \in Implementors(i, t)}

\* C14 (amended): a valid value of the registry asked under t itself is what
\* Get returns; for an interface t with no entry under t, when the
\* implementing keys of the registry asked all hold valid values, one of
\* these values is returned, whatever the parent holds; a value that is not
\* one of the registry's own is returned only when the local steps gave no
\* valid value.
C14_ValidLocalExactThenLocalImplementorThenParent ==
    last.op = "Get"
    => LET i == last.inj
           t == last.arg
           own == {values[i][k] : k \in Keys(values[i])}
       IN  /\ IsValid(values[i][t]) => last.val = values[i][t]
           /\ (IsInterface(t) /\ values[i][t] = Absent /\ Implementors(i, t) # {}
                  /\ \A k \in Implementors(i, t) : IsValid(values[i][k]))
                 => last.val \in {values[i][k] : k \in Implementors(i, t)}
           /\ (IsValid(last.val) /\ last.val \notin own)
                 => /\ ~IsValid(values[i][t])
                    /\ ImplKeys(i, t) # ValidImplKeys(i, t) \/ ImplKeys(i, t) = {}
                    /\ last.val \in Get(parent[i], t)

\* C14 witness: Get(I) on a child with no entry for I returned the value of
\* the child's implementor A while the parent holds another value under I.
C14_Witness ==
    /\ last.op = "Get" /\ last.arg = "I" /\ parent[last.inj] # NoInj
    /\ values[last.inj]["I"] = Absent
    /\ Implementors(last.inj, "I") = {"A"}
    /\ IsValid(values[parent[last.inj]]["I"])
    /\ values[parent[last.inj]]["I"] # values[last.inj]["A"]
    /\ last.val = values[last.inj]["A"]

\* =========================================================== bus claims
\* the dispatch of the n-th received event is over: the loop that received
\* it is back at its select (or has returned)
Completed(n) ==
    \A l \in LoopIds : loops[l].d = n => loops[l].pc \in {"select", "exited"}
\* the handler calls made for the n-th received event
CallsOf(n) == {j \in 1..Len(log) : log[j].d = n}

\* C7: on a bus with a dispatch loop, an event fired by Fire(k, d) while
\* exactly one handler, a func(Event), is registered for k has, once its
\* dispatch is over, caused exactly one call of that handler, with an Event
\* of Type k and Data d.
C7_FiredEventHandledOnceWithItsPayload ==
    \A n \in 1..Len(disp) :
       (/\ disp[n].via = "Fire" /\ disp[n].nh = 1
        /\ handlers[disp[n].bus][disp[n].e.Type].hs = <<"hE">>
        /\ Completed(n))
       => /\ Cardinality(CallsOf(n)) = 1
          /\ \A j \in CallsOf(n) :
                /\ log[j].h = "hE"
                /\ log[j].in[1].Type = disp[n].e.Type
                /\ log[j].in[1].Data = disp[n].e.Data

\* C8: on one bus the events are dispatched in the order they were received
\* from the channel, the handlers of one event are called in registration
\* order, and no two handler calls overlap.
C8_OrderedSerialDispatch ==
    /\ \A j1, j2 \in 1..Len(log) :
          j1 < j2 => /\ log[j1].d <= log[j2].d
                     /\ log[j1].d = log[j2].d => log[j1].idx < log[j2].idx
    /\ \A i \in Inj :
          Cardinality({l \in LoopIds : loops[l].bus = i /\ loops[l].pc = "handler"}) <= 1

\* C9: no Stop caller is ever parked on i.stopped with no dispatch loop of
\* the bus left to receive from it (Stop after Stop, Stop before Start).
C9_StopNeverParkedWithoutLoop ==
    \A c \in Callers : callers[c].pc = "stop" => Live(callers[c].bus) # {}

\* C10: a Fire for a kind with no handler registered neither parks the caller
\* on the event channel nor delivers an event to a loop.
C10_FireWithoutHandlerIsNoop ==
    /\ \A c \in Callers :
          (callers[c].pc = "send" /\ callers[c].op = "Fire") => callers[c].nh > 0
    /\ \A n \in 1..Len(disp) : disp[n].via = "Fire" => disp[n].nh > 0

\* C11: On appends handlers only when every one of them passes validation, so
\* every handler of every handler list is a func whose first declared
\* parameter is of the Event type.
C11_OnlyValidatedHandlersRegistered ==
    \A i \in Inj, k \in Kinds :
       \A n \in 1..Len(handlers[i][k].hs) :
          LET h == handlers[i][k].hs[n]
          IN  IsFunc(h) /\ Len(In(h)) > 0 /\ In(h)[1] = "Event"

\* C15: no event is received and no handler called before Start, and when a
\* Stop call returns no dispatch loop of its bus is left running, so that no
\* handler call begins on the bus until it is started again.
C15_HandlersOnlyWhileRunning ==
    [][/\ Len(loops') = 0 => (log' = <<>> /\ disp' = <<>>)
       /\ \A c \in Callers :
             (callers[c].pc = "stop" /\ callers'[c].pc # "stop")
             => \A l \in 1..Len(loops') :
                   loops'[l].bus = callers[c].bus
                   => loops'[l].pc \in {"exited", "panicked"}]_vars

\* the handlers of the list hs of loop l that run has gone past
Passed(l) ==
    IF loops[l].pc \in {"select", "exited"} /\ loops[l].d > 0 THEN 1..Len(loops[l].hs)
    ELSE IF loops[l].pc \in {"invoke", "handler"} THEN 1..(loops[l].idx - 1)
    ELSE {}
\* the handler at index j of the list was called for the d-th received event
Called(d, j, h) == \E n \in 1..Len(log) : log[n].d = d /\ log[n].idx = j /\ log[n].h = h

\* C16: a handler whose parameters do not resolve (a func(Event, A) while A
\* is not bound) is passed over and the handlers after it are called: every
\* func(Event) of the list that run has gone past was called, in list order,
\* whatever the handlers before it did.
C16_FailedHandlerDoesNotStopDispatch ==
    \A l \in LoopIds :
       /\ \A j \in Passed(l) :
             loops[l].hs[j] = "hE" => Called(loops[l].d, j, "hE")
       /\ \A n1, n2 \in 1..Len(log) :
             (n1 < n2 /\ log[n1].d = log[n2].d) => log[n1].idx < log[n2].idx

\* C16 witness: with handlers <<func(Event, A), func(Event)>> and A never
\* bound, the first event's dispatch called only the second handler, and a
\* later event was dispatched and handled after it.
C16_Witness ==
    /\ values[1]["A"] = Absent
    /\ handlers[1]["k1"].hs = <<"hEA", "hE">>
    /\ \E l \in LoopIds : loops[l].pc = "select" /\ loops[l].d = 2
                            /\ loops[l].hs = <<"hEA", "hE">>
    /\ Len(disp) = 2 /\ disp[1].nh = 2
    /\ Called(1, 2, "hE") /\ ~Called(1, 1, "hEA")
    /\ Called(2, 2, "hE") /\ ~Called(2, 1, "hEA")
    /\ Len(log) = 2

\* every event forwarded to a bus was received there once, from a child of
\* that bus, no handler of the child was called for it, and once its dispatch
\* is over each func(Event) of the list was called once, by the loop of the
\* bus it was forwarded to
ForwardedHandledOnce ==
    \A m \in 1..Len(disp) :
       disp[m].via = "forward"
       => /\ \E n \in 1..(m - 1) : /\ disp[n].e = disp[m].e
                                     /\ parent[disp[n].bus] = disp[m].bus
                                     /\ CallsOf(n) = {}
          /\ \A m2 \in 1..Len(disp) :
                (disp[m2].via = "forward" /\ disp[m2].e = disp[m].e) => m2 = m
          /\ \A j \in CallsOf(m) : log[j].bus = disp[m].bus
          /\ \A l \in LoopIds :
                (loops[l].d = m /\ loops[l].pc \in {"select", "exited"})
                => \A j \in 1..Len(loops[l].hs) :
                      loops[l].hs[j] = "hE"
                      => Cardinality({n \in CallsOf(m) : log[n].idx = j}) = 1

\* C17: when the loop of a child bus whose parent has a dispatch loop goes on
\* from an event for whose kind the child has no handler, it parks in the
\* send on the parent's channel (the event is forwarded) and no handler is
\* called; the parent's loop dispatches the forwarded event to its own
\* handlers, once.
C17_UnhandledEventForwardedToParent ==
    [][/\ \A l \in LoopIds :
             (/\ loops[l].pc = "dispatch" /\ loops'[l].pc # "dispatch"
              /\ parent[loops[l].bus] # NoInj
              /\ Live(parent[loops[l].bus]) # {}
              /\ handlers[loops[l].bus][loops[l].e.Type].hs = <<>>)
             => /\ loops'[l].pc = "forward"
                /\ loops'[l].to = parent[loops[l].bus]
                /\ log' = log
       /\ ForwardedHandledOnce']_vars

\* C18: a bus never has more than one dispatch loop that has not returned.
C18_AtMostOneLiveLoop ==
    \A i \in Inj : Cardinality(Live(i)) <= 1

\* C19: an event enqueued by Fire finds, when the loop dispatches it, a
\* handler list that is neither nil nor empty, and never takes the
\* forward-to-parent or the unknown-kind panic branch of run.
C19_FiredEventFindsHandlers ==
    \A l \in LoopIds :
       (loops[l].d > 0 /\ disp[loops[l].d].via = "Fire")
       => /\ loops[l].pc \notin {"forward", "panicked"}
          /\ loops[l].pc = "dispatch"
                => /\ ~handlers[loops[l].bus][loops[l].e.Type].nil
                   /\ handlers[loops[l].bus][loops[l].e.Type].hs # <<>>

\* C20: while a loop that is the only dispatch loop of its bus is parked in a
\* Fire called by the handler it is running, no step lets that Fire return,
\* receives an event of the bus, or lets a Stop call on the bus return.
C20_ReentrantFireBlocksTheBus ==
    [][\A l \in LoopIds :
          (loops[l].pc = "fire" /\ Live(loops[l].bus) = {l})
          => /\ loops'[l] = loops[l]
             /\ Len(disp') > Len(disp) => disp'[Len(disp')].bus # loops[l].bus
             /\ \A c \in Callers :
                   (callers[c].pc \in {"stop", "send"} /\ callers[c].bus = loops[l].bus)
                   => callers'[c] = callers[c]]_vars

\* C20 witness: the only loop of bus 2 is parked in its handler's Fire, with
\* a Stop call and a send of a later event both parked behind it.
C20_Witness ==
    \E l \in LoopIds :
       /\ loops[l].pc = "fire" /\ loops[l].bus = 2 /\ Live(2) = {l}
       /\ \E c1, c2 \in Callers : /\ callers[c1].pc = "stop" /\ callers[c1].bus = 2
                                   /\ callers[c2].pc = "send" /\ callers[c2].bus = 2
====
